---------------------------- MODULE Spec2Model ----------------------------
(***************************************************************************)
(* GitSyncService (packages/git/src/browser/git-sync-service.ts).          *)
(*                                                                         *)
(* The service is a single object with one field, _syncing, and an event   *)
(* emitter.  sync() and publish() are async methods: every await is a      *)
(* point where the invocation is suspended and other invocations, or the   *)
(* repository tracker, may run.  An action of this module is one           *)
(* synchronous run of an invocation, from the settling of the promise it   *)
(* waits for up to its next suspension or its return.                      *)
(***************************************************************************)
EXTENDS Naturals, Integers, Sequences, FiniteSets, TLC

\* Number of sync()/publish() invocations a behaviour may start.
MaxInvocations == 2

Invocations == 1..MaxInvocations

\* JavaScript's undefined, for optional strings.
Undefined == "<undefined>"

\* JavaScript truthiness of an optional string (!!s).
Truthy(s) == s # Undefined /\ s # ""

(***************************************************************************)
(* The collaborators' values.                                              *)
(***************************************************************************)
\* GitRepositoryTracker.selectedRepository: Repository | undefined.
Repositories == {Undefined, "repo"}

BranchValues == {Undefined, "", "master"}
UpstreamValues == {Undefined, "", "origin/master"}

\* GitRepositoryTracker.selectedRepositoryStatus: WorkingDirectoryStatus | undefined.
NoStatus == [defined |-> FALSE, branch |-> Undefined, upstreamBranch |-> Undefined]
Statuses ==
    {NoStatus} \cup
    [defined : {TRUE}, branch : BranchValues, upstreamBranch : UpstreamValues]

\* What git.exec / git.remote / git.status may reject with (e: any): an object
\* with a non-empty message, with an empty message, without a message, or a
\* value that is no object.
Failures ==
    { [isObject |-> TRUE,  hasMessage |-> TRUE,  message |-> "fatal: failed"],
      [isObject |-> TRUE,  hasMessage |-> TRUE,  message |-> ""],
      [isObject |-> TRUE,  hasMessage |-> FALSE, message |-> Undefined],
      [isObject |-> FALSE, hasMessage |-> FALSE, message |-> Undefined] }

\* The outcome of a git.exec call: resolved, or rejected with a failure.
Resolved == [isObject |-> TRUE, hasMessage |-> FALSE, message |-> "<resolved>"]
ExecOutcomes == {Resolved} \cup Failures

\* The replies of git.remote: the configured remotes, in order.
RemoteReplies ==
    { <<>>, <<"origin">>, <<"origin", "upstream">>, <<"upstream", "origin">> }

\* The replies of git.status that shouldPush reads: aheadBehind.ahead > 0,
\* aheadBehind.ahead = 0, aheadBehind absent, or the call rejected.
StatusReplies == {"ahead>0", "ahead=0", "noAheadBehind", "rejected"}

(***************************************************************************)
(* State.                                                                  *)
(***************************************************************************)
VARIABLES
    syncing,                    \* GitSyncService._syncing
    fires,                      \* per invocation: the value of _syncing at each
                                \* onDidChangeEmitter.fire it caused
    selectedRepository,         \* repositoryTracker.selectedRepository
    selectedRepositoryStatus,   \* repositoryTracker.selectedRepositoryStatus
    inv                         \* per invocation: position, locals, what it did

vars == <<syncing, fires, selectedRepository, selectedRepositoryStatus, inv>>

\* An invocation that has not been started.
NotStarted ==
    [ kind           |-> "none",     \* "sync" | "publish"
      pc             |-> "idle",     \* where the invocation is suspended
      busyAtEntry    |-> FALSE,      \* _syncing when the method was called
      rebase         |-> FALSE,      \* sync: const rebase
      upstreamBranch |-> Undefined,  \* sync: const upstreamBranch
      branch         |-> Undefined,  \* publish: const branch
      remote         |-> Undefined,  \* publish: const remote
      picks          |-> <<>>,       \* the item lists of the quick-opens shown
      picked         |-> <<>>,       \* what each quick-open resolved to (0: closed)
      confirms       |-> <<>>,       \* the ConfirmDialogs opened
      answers        |-> <<>>,       \* what each ConfirmDialog resolved to
      execs          |-> <<>>,       \* the argv of each git.exec call, in order
      remoteCalls    |-> 0,          \* git.remote calls
      remoteReply    |-> <<>>,       \* what git.remote resolved with, once it has
      remoteFailed   |-> <<>>,       \* what git.remote rejected with, once it has
      statusQuery    |-> "none",     \* shouldPush's git.status: none, pending, or its reply
      failed         |-> <<>>,       \* the git.exec calls that rejected, and with what
      errors         |-> <<>>,       \* messageService.error(message)
      warns          |-> <<>>,       \* messageService.warn(message)
      console        |-> 0,          \* console.error calls
      result         |-> "none" ]    \* how the returned promise settled, and where

Init ==
    /\ syncing = FALSE
    /\ fires = [i \in Invocations |-> <<>>]
    /\ selectedRepository \in Repositories
    /\ selectedRepositoryStatus \in Statuses
    /\ inv = [i \in Invocations |-> NotStarted]


(***************************************************************************)
(* Helpers of the service.                                                 *)
(***************************************************************************)
\* Invocations are started in the order of their numbers (they are only names).
CanStart(i) ==
    /\ inv[i].pc = "idle"
    /\ \A j \in Invocations : j < i => inv[j].pc # "idle"

\* The async method returns (or its promise rejects): nothing more runs.
Return(r, how) == [r EXCEPT !.pc = "done", !.result = how]

\* A setSyncing that fires onDidChange only when the value changes.
setSyncing_FiresOnChangeOnly(i, value) ==
    /\ syncing' = value
    /\ fires' = IF value # syncing
                THEN [fires EXCEPT ![i] = Append(@, value)]
                ELSE fires

\* setSyncing(syncing): assigns _syncing and fires onDidChange, always.
setSyncing(i, value) ==
    /\ syncing' = value
    /\ fires' = [fires EXCEPT ![i] = Append(@, value)]

\* A canSync that does not look at _syncing.
canSync_IgnoresSyncing ==
    /\ selectedRepositoryStatus.defined
    /\ Truthy(selectedRepositoryStatus.branch)
    /\ Truthy(selectedRepositoryStatus.upstreamBranch)

\* canSync(): not syncing, and the status has a branch and an upstream branch.
canSync ==
    IF syncing
    THEN FALSE
    ELSE /\ selectedRepositoryStatus.defined
         /\ Truthy(selectedRepositoryStatus.branch)
         /\ Truthy(selectedRepositoryStatus.upstreamBranch)

\* A canPublish that does not look at the upstream branch.
canPublish_IgnoresUpstream ==
    IF syncing
    THEN FALSE
    ELSE /\ selectedRepositoryStatus.defined
         /\ Truthy(selectedRepositoryStatus.branch)

\* canPublish(): not syncing, and the status has a branch and no upstream branch.
canPublish ==
    IF syncing
    THEN FALSE
    ELSE /\ selectedRepositoryStatus.defined
         /\ Truthy(selectedRepositoryStatus.branch)
         /\ ~Truthy(selectedRepositoryStatus.upstreamBranch)

\* shouldRebase(): the two items of the sync-method quick-open.
shouldRebaseElements ==
    << [label |-> "Pull and push commits", value |-> FALSE],
       [label |-> "Fetch, rebase and push commits", value |-> TRUE] >>

\* A pick that lists the elements in reverse order.
pick_Reversed(r, placeholder, labels) ==
    [r EXCEPT !.picks = Append(@,
        [placeholder |-> placeholder,
         items |-> [k \in 1..Len(labels) |-> labels[Len(labels) + 1 - k]]])]

\* pick(placeholder, elements) opens a quick-open with one item per element.
pick(r, placeholder, labels) ==
    [r EXCEPT !.picks = Append(@, [placeholder |-> placeholder, items |-> labels])]

\* The quick-open resolves: item k was run in OPEN mode (resolve(value)), or
\* (k = 0) the quick-open was closed (resolve(undefined)).
resolvePick(r, k) == [r EXCEPT !.picked = Append(@, k)]

\* confirm(title, msg) opens a ConfirmDialog.
confirm(r, title, msg) ==
    [r EXCEPT !.confirms = Append(@, [title |-> title, msg |-> msg])]

\* The ConfirmDialog resolves to accepted.
resolveConfirm(r, accepted) == [r EXCEPT !.answers = Append(@, accepted)]

\* The message of sync's confirmation (template strings of lines 60-61).
syncConfirmMsg(rebase, upstreamBranch) ==
    IF rebase
    THEN <<"This action will fetch, rebase and push commits from and to '",
           upstreamBranch, "'.">>
    ELSE <<"This action will pull and push commits from and to '",
           upstreamBranch, "'.">>

\* The message of publish's confirmation (template string of line 100).
publishConfirmMsg(remote, branch) ==
    <<"This action will push commits to '", remote, "/", branch,
      "' and track it as an upstream branch.">>

\* A pull that forgets the rebase flag.
pullArgs_NoRebaseFlag(rebase) == <<"pull">>

\* pull(repository, rebase): the argv handed to git.exec.
pullArgs(rebase) ==
    <<"pull">> \o (IF rebase THEN <<"-r">> ELSE <<>>)

\* A push that appends remote and branch whether or not they are given.
pushArgs_NoTruthyTest(remote, branch, setUpstream) ==
    <<"push">>
        \o (IF setUpstream THEN <<"-u">> ELSE <<>>)
        \o <<remote>>
        \o <<branch>>

\* A push that forgets the set-upstream flag.
pushArgs_NoUpstreamFlag(remote, branch, setUpstream) ==
    <<"push">>
        \o (IF Truthy(remote) THEN <<remote>> ELSE <<>>)
        \o (IF Truthy(branch) THEN <<branch>> ELSE <<>>)

\* push(repository, {remote, branch, setUpstream}): the argv handed to git.exec.
pushArgs(remote, branch, setUpstream) ==
    <<"push">>
        \o (IF setUpstream THEN <<"-u">> ELSE <<>>)
        \o (IF Truthy(remote) THEN <<remote>> ELSE <<>>)
        \o (IF Truthy(branch) THEN <<branch>> ELSE <<>>)

\* A warn that shows nothing.
warn_Nothing(r, message) == r

\* this.messageService.warn(message)
warn(r, message) == [r EXCEPT !.warns = Append(@, message)]

\* git.exec(repository, args) is called.
exec(r, args) == [r EXCEPT !.execs = Append(@, args)]

\* An error(e) that raises for every e (it rethrows).
errorThrows_Always(e) == TRUE

\* error(e) raises a TypeError when e is no object: 'message' in e.
errorThrows(e) == ~e.isObject

\* An error(e) that only logs to the console.
error_ConsoleOnly(r, e) == [r EXCEPT !.console = @ + 1]

\* error(e): messageService.error(e.message) when e has a truthy message,
\* console.error(e) otherwise.
error(r, e) ==
    IF e.hasMessage /\ Truthy(e.message)
    THEN [r EXCEPT !.errors = Append(@, e.message)]
    ELSE [r EXCEPT !.console = @ + 1]

\* git.exec(repository, args) rejected with e.
rejected(r, e) ==
    [r EXCEPT !.failed = Append(@, [args |-> r.execs[Len(r.execs)], e |-> e])]

\* The catch clause of pull and of push: catch (e) { this.error(e); }
catch(r, e) == error(rejected(r, e), e)

\* A sync that goes on whatever the confirmation dialog resolved to.
declined_Never(accepted) == FALSE

\* Line 59: sync returns when the confirmation dialog resolved to false.
declined(accepted) == ~accepted

\* A sync without the finally clause.
finally_Missing(i) == UNCHANGED <<syncing, fires>>

\* Lines 70-72: finally { this.setSyncing(false); }
finally(i) == setSyncing(i, FALSE)

\* A push decision that comes out false.
shouldPushIsTruthy_Falsy == FALSE

\* `if (this.shouldPush(repository))` tests the promise shouldPush returns,
\* which is an object: the test never fails, and never waits for the status.
shouldPushIsTruthy == TRUE

(***************************************************************************)
(* sync()                                                                  *)
(***************************************************************************)
\* Lines 49-54: the entry guard, then the sync-method quick-open is shown.
sync(i) ==
    /\ CanStart(i)
    /\ LET r == [inv[i] EXCEPT !.kind = "sync", !.busyAtEntry = syncing] IN
       IF ~canSync \/ selectedRepository = Undefined
       THEN inv' = [inv EXCEPT ![i] = Return(r, "guard")]
       ELSE inv' = [inv EXCEPT ![i] =
                [pick(r, "Pick a sync method:",
                      [k \in 1..Len(shouldRebaseElements) |->
                           shouldRebaseElements[k].label])
                 EXCEPT !.pc = "shouldRebase",
                        !.upstreamBranch = selectedRepositoryStatus.upstreamBranch]]
    /\ UNCHANGED <<syncing, fires, selectedRepository, selectedRepositoryStatus>>

\* Lines 54-61: the quick-open resolves: item k was opened, or (k = 0) it was closed.
syncAfterShouldRebase(i, k) ==
    /\ inv[i].kind = "sync" /\ inv[i].pc = "shouldRebase"
    /\ LET r == resolvePick(inv[i], k) IN
       IF k = 0
       THEN inv' = [inv EXCEPT ![i] = Return(r, "cancelled")]
       ELSE LET rebase == shouldRebaseElements[k].value IN
            inv' = [inv EXCEPT ![i] =
                [confirm(r, "Sync changes", syncConfirmMsg(rebase, r.upstreamBranch))
                 EXCEPT !.pc = "confirm", !.rebase = rebase]]
    /\ UNCHANGED <<syncing, fires, selectedRepository, selectedRepositoryStatus>>

\* Lines 59-66: the dialog resolves; when accepted, setSyncing(true) and the pull
\* command is handed to git.exec.
syncAfterConfirm(i, accepted) ==
    /\ inv[i].kind = "sync" /\ inv[i].pc = "confirm"
    /\ LET r == resolveConfirm(inv[i], accepted) IN
       IF declined(accepted)
       THEN /\ inv' = [inv EXCEPT ![i] = Return(r, "declined")]
            /\ UNCHANGED <<syncing, fires>>
       ELSE /\ setSyncing(i, TRUE)
            /\ inv' = [inv EXCEPT ![i] =
                   [exec(r, pullArgs(r.rebase)) EXCEPT !.pc = "pull"]]
    /\ UNCHANGED <<selectedRepository, selectedRepositoryStatus>>

\* Lines 66-68, 128-132, 119-120, 139-150: the pull's git.exec settles with o.  A
\* failure goes to error(e); if that raises, the finally clause runs and sync's
\* promise rejects.  Otherwise shouldPush calls git.status, its promise is tested,
\* and the push command is handed to git.exec.
syncAfterPull(i, o) ==
    /\ inv[i].kind = "sync" /\ inv[i].pc = "pull"
    /\ IF o # Resolved /\ errorThrows(o)
       THEN /\ finally(i)
            /\ inv' = [inv EXCEPT ![i] = Return(rejected(@, o), "rejected")]
       ELSE LET r  == IF o = Resolved THEN inv[i] ELSE catch(inv[i], o)
                r2 == [r EXCEPT !.statusQuery = "pending"]
            IN  IF shouldPushIsTruthy
                THEN /\ inv' = [inv EXCEPT ![i] =
                            [exec(r2, pushArgs(Undefined, Undefined, FALSE))
                             EXCEPT !.pc = "push"]]
                     /\ UNCHANGED <<syncing, fires>>
                ELSE /\ finally(i)
                     /\ inv' = [inv EXCEPT ![i] = Return(r2, "completed")]
    /\ UNCHANGED <<selectedRepository, selectedRepositoryStatus>>

\* Lines 149-153, 70-72: the push's git.exec settles with o; the finally clause
\* runs setSyncing(false) whether push returned or error(e) raised.
syncAfterPush(i, o) ==
    /\ inv[i].kind = "sync" /\ inv[i].pc = "push"
    /\ finally(i)
    /\ inv' = [inv EXCEPT ![i] =
           IF o = Resolved THEN Return(@, "completed")
           ELSE IF errorThrows(o)
                THEN Return(rejected(@, o), "rejected")
                ELSE Return(catch(@, o), "completed")]
    /\ UNCHANGED <<selectedRepository, selectedRepositoryStatus>>

\* Lines 120-121: shouldPush's git.status settles with reply s; shouldPush's own
\* promise then settles, and nothing waits for it.
shouldPushAfterStatus(i, s) ==
    /\ inv[i].statusQuery = "pending"
    /\ inv' = [inv EXCEPT ![i].statusQuery = s]
    /\ UNCHANGED <<syncing, fires, selectedRepository, selectedRepositoryStatus>>

(***************************************************************************)
(* publish()                                                               *)
(***************************************************************************)
\* Lines 92-98, 108: the entry guard, then getRemote calls git.remote.
publish(i) ==
    /\ CanStart(i)
    /\ LET r == [inv[i] EXCEPT !.kind = "publish", !.busyAtEntry = syncing]
           branch == IF selectedRepositoryStatus.defined
                     THEN selectedRepositoryStatus.branch
                     ELSE Undefined
       IN  IF ~canPublish \/ selectedRepository = Undefined \/ ~Truthy(branch)
           THEN inv' = [inv EXCEPT ![i] = Return(r, "guard")]
           ELSE inv' = [inv EXCEPT ![i] =
                    [r EXCEPT !.pc = "remote", !.branch = branch,
                              !.remoteCalls = @ + 1]]
    /\ UNCHANGED <<syncing, fires, selectedRepository, selectedRepositoryStatus>>

\* Lines 99-100: publish goes on with the remote getRemote resolved to.
publishWithRemote(r, remote) ==
    IF Truthy(remote)
    THEN [confirm(r, "Publish changes", publishConfirmMsg(remote, r.branch))
          EXCEPT !.pc = "confirm", !.remote = remote]
    ELSE Return(r, "noRemote")

\* Lines 108-116: git.remote resolves with the list remotes.
publishAfterRemote(i, remotes) ==
    /\ inv[i].kind = "publish" /\ inv[i].pc = "remote"
    /\ LET r == [inv[i] EXCEPT !.remoteReply = Append(@, remotes)] IN
       inv' = [inv EXCEPT ![i] =
           IF Len(remotes) = 0
           THEN publishWithRemote(
                    warn(r, "Your repository has no remotes configured to publish to."),
                    Undefined)
           ELSE IF Len(remotes) = 1
                THEN publishWithRemote(r, remotes[1])
                ELSE [pick(r, <<"Pick a remote to publish the branch ", r.branch, " to:">>,
                           remotes)
                      EXCEPT !.pc = "pickRemote"]]
    /\ UNCHANGED <<syncing, fires, selectedRepository, selectedRepositoryStatus>>

\* Line 108: git.remote rejects with e; neither getRemote nor publish catches it.
publishRemoteRejected(i, e) ==
    /\ inv[i].kind = "publish" /\ inv[i].pc = "remote"
    /\ inv' = [inv EXCEPT ![i] =
           Return([@ EXCEPT !.remoteFailed = Append(@, e)], "rejected")]
    /\ UNCHANGED <<syncing, fires, selectedRepository, selectedRepositoryStatus>>

\* Lines 116, 99-100: the remote quick-open resolves: item k, or (k = 0) closed.
publishAfterPick(i, k) ==
    /\ inv[i].kind = "publish" /\ inv[i].pc = "pickRemote"
    /\ LET r == resolvePick(inv[i], k) IN
       inv' = [inv EXCEPT ![i] =
           IF k = 0
           THEN Return(r, "cancelled")
           ELSE publishWithRemote(r, r.picks[Len(r.picks)].items[k])]
    /\ UNCHANGED <<syncing, fires, selectedRepository, selectedRepositoryStatus>>

\* A publish that sets _syncing before its push.
publishAfterConfirm_SetsSyncing(i, accepted) ==
    /\ inv[i].kind = "publish" /\ inv[i].pc = "confirm"
    /\ LET r == resolveConfirm(inv[i], accepted) IN
       IF ~accepted
       THEN /\ inv' = [inv EXCEPT ![i] = Return(r, "declined")]
            /\ UNCHANGED <<syncing, fires>>
       ELSE /\ setSyncing(i, TRUE)
            /\ inv' = [inv EXCEPT ![i] =
                   [exec(r, pushArgs(r.remote, r.branch, TRUE)) EXCEPT !.pc = "push"]]
    /\ UNCHANGED <<selectedRepository, selectedRepositoryStatus>>

\* Lines 100-104, 139-150: the dialog resolves; when accepted, the push command
\* is handed to git.exec.
publishAfterConfirm(i, accepted) ==
    /\ inv[i].kind = "publish" /\ inv[i].pc = "confirm"
    /\ LET r == resolveConfirm(inv[i], accepted) IN
       inv' = [inv EXCEPT ![i] =
           IF ~accepted
           THEN Return(r, "declined")
           ELSE [exec(r, pushArgs(r.remote, r.branch, TRUE)) EXCEPT !.pc = "push"]]
    /\ UNCHANGED <<syncing, fires, selectedRepository, selectedRepositoryStatus>>

\* Lines 149-153: the push's git.exec settles with o.
publishAfterPush(i, o) ==
    /\ inv[i].kind = "publish" /\ inv[i].pc = "push"
    /\ inv' = [inv EXCEPT ![i] =
           IF o = Resolved THEN Return(@, "completed")
           ELSE IF errorThrows(o)
                THEN Return(rejected(@, o), "rejected")
                ELSE Return(catch(@, o), "completed")]
    /\ UNCHANGED <<syncing, fires, selectedRepository, selectedRepositoryStatus>>

(***************************************************************************)
(* The repository tracker selects another repository or refreshes the      *)
(* status, at any time.  The service reads the tracker only in the first   *)
(* synchronous run of sync() and publish(), so an update after the last    *)
(* invocation of a behaviour has started is seen by nobody and is left out.*)
(***************************************************************************)
trackerUpdate(repository, status) ==
    /\ <<repository, status>> # <<selectedRepository, selectedRepositoryStatus>>
    /\ \E i \in Invocations : inv[i].pc = "idle"
    /\ selectedRepository' = repository
    /\ selectedRepositoryStatus' = status
    /\ UNCHANGED <<syncing, fires, inv>>

(***************************************************************************)
(* Specification.                                                          *)
(***************************************************************************)
Next ==
    \/ \E i \in Invocations : sync(i)
    \/ \E i \in Invocations, k \in 0..Len(shouldRebaseElements) :
           syncAfterShouldRebase(i, k)
    \/ \E i \in Invocations, accepted \in BOOLEAN : syncAfterConfirm(i, accepted)
    \/ \E i \in Invocations, o \in ExecOutcomes : syncAfterPull(i, o)
    \/ \E i \in Invocations, o \in ExecOutcomes : syncAfterPush(i, o)
    \/ \E i \in Invocations, s \in StatusReplies : shouldPushAfterStatus(i, s)
    \/ \E i \in Invocations : publish(i)
    \/ \E i \in Invocations, remotes \in RemoteReplies : publishAfterRemote(i, remotes)
    \/ \E i \in Invocations, e \in Failures : publishRemoteRejected(i, e)
    \/ \E i \in Invocations, k \in 0..2 : publishAfterPick(i, k)
    \/ \E i \in Invocations, accepted \in BOOLEAN : publishAfterConfirm(i, accepted)
    \/ \E i \in Invocations, o \in ExecOutcomes : publishAfterPush(i, o)
    \/ \E repository \in Repositories, status \in Statuses :
           trackerUpdate(repository, status)

Spec == Init /\ [][Next]_vars

\* Every command handed to git.exec eventually resolves or rejects.
CommandsSettle ==
    /\ WF_vars(\E i \in Invocations, o \in ExecOutcomes : syncAfterPull(i, o))
    /\ WF_vars(\E i \in Invocations, o \in ExecOutcomes : syncAfterPush(i, o))
    /\ WF_vars(\E i \in Invocations, o \in ExecOutcomes : publishAfterPush(i, o))

FairSpec == Spec /\ CommandsSettle

(***************************************************************************)
(* Vocabulary of the properties.                                           *)
(***************************************************************************)
Range(seq) == {seq[k] : k \in 1..Len(seq)}

\* The Running phase of a sync: between setSyncing(true) and setSyncing(false).
Running(i) == inv[i].kind = "sync" /\ inv[i].pc \in {"pull", "push"}

\* The sync passed the guard, the method choice and the confirmation.
Confirmed(i) == inv[i].kind = "sync" /\ Len(inv[i].execs) >= 1

Done(i) == inv[i].pc = "done"

\* The pull's git.exec of sync i rejected with e.
PullFailedWith(i, e) ==
    /\ Len(inv[i].failed) >= 1
    /\ inv[i].failed[1].args[1] = "pull"
    /\ inv[i].failed[1].e = e

\* The number of onDidChange notifications fired so far.
RECURSIVE FiredUpTo(_)
FiredUpTo(n) == IF n = 0 THEN 0 ELSE Len(fires[n]) + FiredUpTo(n - 1)
Fired == FiredUpTo(MaxInvocations)

(***************************************************************************)
(* C1.  At most one sync invocation is in its Running phase at any time.   *)
(* Violated: canSync() is tested only at entry; two invocations that both  *)
(* entered while idle both reach setSyncing(true).                         *)
(***************************************************************************)
C1_AtMostOneRunning ==
    Cardinality({i \in Invocations : Running(i)}) <= 1

(***************************************************************************)
(* C2.  A sync() invoked while _syncing is true is a no-op: it returns at  *)
(* the guard having shown no quick-open and no dialog, called no git       *)
(* operation, and neither written _syncing nor fired onDidChange.          *)
(***************************************************************************)
C2_SyncWhileBusyIsNoOp ==
    \A i \in Invocations :
        (inv[i].kind = "sync" /\ inv[i].busyAtEntry) =>
            /\ inv[i].pc = "done" /\ inv[i].result = "guard"
            /\ inv[i].picks = <<>> /\ inv[i].confirms = <<>>
            /\ inv[i].execs = <<>> /\ inv[i].statusQuery = "none"
            /\ inv[i].errors = <<>> /\ inv[i].warns = <<>> /\ inv[i].console = 0
            /\ fires[i] = <<>>

C2_Witness ==
    \E i \in Invocations :
        /\ inv[i].kind = "sync" /\ inv[i].busyAtEntry /\ Done(i)
        /\ selectedRepository # Undefined
        /\ Truthy(selectedRepositoryStatus.branch)
        /\ Truthy(selectedRepositoryStatus.upstreamBranch)

(***************************************************************************)
(* C3.  Every sync that reaches its Running phase ends with setSyncing     *)
(* (false), whatever the pull and the push do and also when error(e)       *)
(* raises, provided every command settles; and _syncing is false whenever  *)
(* no sync is in its Running phase.                                        *)
(***************************************************************************)
C3_BusyAlwaysReset ==
    /\ \A i \in Invocations :
           Running(i) ~> (Done(i) /\ fires[i] = <<TRUE, FALSE>>)
    /\ []((\A i \in Invocations : ~Running(i)) => ~syncing)

C3_Witness ==
    \E i \in Invocations :
        /\ Done(i) /\ inv[i].kind = "sync" /\ inv[i].result = "rejected"
        /\ fires[i] = <<TRUE, FALSE>> /\ ~syncing

(***************************************************************************)
(* C4.  onDidChange fires exactly when _syncing changes: a step fires a    *)
(* notification only if it changes _syncing, and a step that changes       *)
(* _syncing fires exactly one.  Violated: setSyncing fires on every call,  *)
(* and the second of two overlapping syncs calls setSyncing(true) while    *)
(* _syncing is already true.                                               *)
(***************************************************************************)
C4_FiresExactlyOnTransitions ==
    [][ /\ (Fired' # Fired) => (syncing' # syncing)
        /\ (syncing' # syncing) => (Fired' = Fired + 1) ]_vars

(***************************************************************************)
(* C5.  A sync that passed the guard, the method choice and the            *)
(* confirmation fires onDidChange exactly twice, first with _syncing true  *)
(* and then with _syncing false, whatever the pull and the push did; a     *)
(* sync that returned at the guard or at a prompt fired it zero times.     *)
(***************************************************************************)
C5_TwoFiresPerConfirmedSync ==
    \A i \in Invocations :
        inv[i].kind = "sync" =>
            /\ inv[i].pc \in {"shouldRebase", "confirm"} => fires[i] = <<>>
            /\ Running(i) => fires[i] = <<TRUE>>
            /\ (Done(i) /\ inv[i].result \in {"guard", "cancelled", "declined"})
                   => fires[i] = <<>>
            /\ (Done(i) /\ inv[i].result \in {"completed", "rejected"})
                   => fires[i] = <<TRUE, FALSE>>
            /\ (Done(i) /\ Confirmed(i)) => fires[i] = <<TRUE, FALSE>>

C5_Witness ==
    \E i, j \in Invocations :
        /\ i # j
        /\ Done(i) /\ Confirmed(i) /\ Len(inv[i].failed) = 2
        /\ fires[i] = <<TRUE, FALSE>>
        /\ Done(j) /\ inv[j].kind = "sync" /\ inv[j].result = "declined"
        /\ fires[j] = <<>>

(***************************************************************************)
(* C6.  A sync whose method quick-open was closed, or whose confirmation   *)
(* was declined, has called no git operation (no pull, no status, no       *)
(* push), has reported no error and no warning, and has neither written    *)
(* _syncing nor fired onDidChange.                                         *)
(***************************************************************************)
C6_CancelledSyncDoesNothing ==
    \A i \in Invocations :
        (/\ inv[i].kind = "sync"
         /\ (inv[i].picked = <<0>> \/ FALSE \in Range(inv[i].answers))) =>
            /\ Done(i) /\ inv[i].result \in {"cancelled", "declined"}
            /\ inv[i].execs = <<>> /\ inv[i].statusQuery = "none"
            /\ inv[i].remoteCalls = 0 /\ inv[i].failed = <<>>
            /\ inv[i].errors = <<>> /\ inv[i].warns = <<>> /\ inv[i].console = 0
            /\ fires[i] = <<>>
            /\ ((\A j \in Invocations : j # i => fires[j] = <<>>) => ~syncing)

C6_Witness ==
    \E i, j \in Invocations :
        /\ inv[i].kind = "sync" /\ inv[i].result = "cancelled"
        /\ inv[j].kind = "sync" /\ inv[j].result = "declined"
        /\ ~syncing

(***************************************************************************)
(* C7.  When the pull of a confirmed sync rejects with an object (with a   *)
(* message, with an empty message, without a message), the sync goes on:   *)
(* git.status is called for the push decision and the push command is      *)
(* handed to git.exec after the pull.                                      *)
(***************************************************************************)
C7_PullFailureDoesNotAbort ==
    \A i \in Invocations : \A e \in Failures :
        (inv[i].kind = "sync" /\ PullFailedWith(i, e) /\ e.isObject) =>
            /\ inv[i].statusQuery # "none"
            /\ Len(inv[i].execs) = 2
            /\ inv[i].execs[1][1] = "pull"
            /\ inv[i].execs[2] = <<"push">>

C7_Witness ==
    \E i, j \in Invocations : \E e, f \in Failures :
        /\ i # j
        /\ PullFailedWith(i, e) /\ e.hasMessage /\ e.message = ""
        /\ PullFailedWith(j, f) /\ ~f.hasMessage /\ f.isObject
        /\ inv[i].execs[2] = <<"push">> /\ inv[j].execs[2] = <<"push">>

(***************************************************************************)
(* C8.  As claimed, for the failures that are objects: every git.exec     *)
(* that rejects is reported through messageService exactly once, with its  *)
(* message when it has one.                                                *)
(* Violated: a failure without a truthy message goes to console.error.     *)
(***************************************************************************)
IsObject(f) == f.e.isObject
HasMessage(f) == f.e.hasMessage /\ Truthy(f.e.message)
LoggedToConsole(f) == f.e.isObject /\ ~HasMessage(f)

PullRaised(i) == \E e \in Failures : PullFailedWith(i, e) /\ ~e.isObject

C9_PushAlwaysAttempted ==
    \A i \in Invocations :
        (Confirmed(i) /\ inv[i].pc # "pull" /\ ~PullRaised(i)) =>
            /\ inv[i].statusQuery \in {"pending"} \cup StatusReplies
            /\ Len(inv[i].execs) = 2
            /\ inv[i].execs[1][1] = "pull"
            /\ inv[i].execs[2] = <<"push">>

C9_Witness ==
    \E i, j \in Invocations :
        /\ Done(i) /\ Confirmed(i) /\ inv[i].statusQuery = "ahead=0"
        /\ inv[i].execs[2] = <<"push">>
        /\ Done(j) /\ Confirmed(j) /\ inv[j].statusQuery = "noAheadBehind"
        /\ inv[j].execs[2] = <<"push">>

(***************************************************************************)
(* C10.  A confirmed sync hands exactly one pull command to git.exec, as   *)
(* its first command: <<"pull", "-r">> when the rebase item was picked,    *)
(* <<"pull">> when the merge item was; also when the pull rejects.  A sync *)
(* that is not confirmed hands over none.                                  *)
(***************************************************************************)
C10_OnePullFirst ==
    \A i \in Invocations :
        inv[i].kind = "sync" =>
            /\ (inv[i].answers = <<TRUE>>) <=> Confirmed(i)
            /\ Confirmed(i) =>
                   /\ inv[i].picked = <<1>> => inv[i].execs[1] = <<"pull">>
                   /\ inv[i].picked = <<2>> => inv[i].execs[1] = <<"pull", "-r">>
                   /\ inv[i].picked \in {<<1>>, <<2>>}
                   /\ \A k \in 2..Len(inv[i].execs) : inv[i].execs[k][1] = "push"

C10_Witness ==
    \E i, j \in Invocations :
        /\ Done(i) /\ Confirmed(i) /\ inv[i].picked = <<2>>
        /\ inv[i].execs[1] = <<"pull", "-r">>
        /\ Len(inv[i].failed) >= 1 /\ inv[i].failed[1].args = <<"pull", "-r">>
        /\ Len(inv[i].execs) = 2
        /\ Done(j) /\ Confirmed(j) /\ inv[j].picked = <<1>>
        /\ inv[j].execs[1] = <<"pull">>

(***************************************************************************)
(* C11.  A publish that passed its guard and whose git.remote resolved     *)
(* with no remote has shown exactly one warning and has returned: no       *)
(* quick-open, no dialog, no git.exec, no setSyncing.                      *)
(***************************************************************************)
PastPublishGuard(i) == inv[i].kind = "publish" /\ inv[i].remoteCalls >= 1

C11_NoRemotesWarnsOnce ==
    \A i \in Invocations :
        (PastPublishGuard(i) /\ inv[i].remoteReply = << <<>> >>) =>
            /\ Done(i)
            /\ inv[i].warns =
                   <<"Your repository has no remotes configured to publish to.">>
            /\ inv[i].errors = <<>> /\ inv[i].console = 0
            /\ inv[i].picks = <<>> /\ inv[i].confirms = <<>>
            /\ inv[i].execs = <<>>
            /\ fires[i] = <<>>

C11_Witness ==
    \E i \in Invocations :
        /\ PastPublishGuard(i) /\ inv[i].remoteReply = << <<>> >>
        /\ Done(i) /\ Len(inv[i].warns) = 1

(***************************************************************************)
(* C12.  A publish that passed its guard and whose git.remote resolved     *)
(* with exactly one remote R shows no quick-open; once its dialog is       *)
(* accepted it has handed exactly one command to git.exec,                 *)
(* <<"push", "-u", R, B>> with B the branch read at entry, and when the    *)
(* dialog is declined it has handed over none.                             *)
(***************************************************************************)
C12_SingleRemotePublish ==
    \A i \in Invocations :
        (PastPublishGuard(i) /\ Len(inv[i].remoteReply) = 1
                             /\ Len(inv[i].remoteReply[1]) = 1) =>
            LET R == inv[i].remoteReply[1][1] IN
            /\ inv[i].picks = <<>>
            /\ Len(inv[i].confirms) = 1
            /\ inv[i].answers = <<>> => (inv[i].pc = "confirm" /\ inv[i].execs = <<>>)
            /\ inv[i].answers = <<TRUE>> =>
                   inv[i].execs = << <<"push", "-u", R, "master">> >>
            /\ inv[i].answers = <<FALSE>> => (Done(i) /\ inv[i].execs = <<>>)
            /\ inv[i].branch = "master"

C12_Witness ==
    \E i, j \in Invocations :
        /\ i # j
        /\ PastPublishGuard(i) /\ inv[i].remoteReply = << <<"origin">> >>
        /\ inv[i].answers = <<TRUE>> /\ Done(i)
        /\ inv[i].execs = << <<"push", "-u", "origin", "master">> >>
        /\ PastPublishGuard(j) /\ inv[j].remoteReply = << <<"origin">> >>
        /\ inv[j].answers = <<FALSE>> /\ Done(j)

(***************************************************************************)
(* C13.  A publish that passed its guard and whose git.remote resolved     *)
(* with two or more remotes shows one quick-open whose items are exactly   *)
(* these remotes, in order; the push that follows an accepted dialog       *)
(* names the remote that was picked; and a closed quick-open ends the      *)
(* publish with no dialog, no git.exec and no notification.                *)
(***************************************************************************)
C13_RemotePickPublish ==
    \A i \in Invocations :
        (PastPublishGuard(i) /\ Len(inv[i].remoteReply) = 1
                             /\ Len(inv[i].remoteReply[1]) >= 2) =>
            LET remotes == inv[i].remoteReply[1] IN
            /\ Len(inv[i].picks) = 1
            /\ inv[i].picks[1].items = remotes
            /\ inv[i].picked = <<>> => (inv[i].pc = "pickRemote" /\ inv[i].confirms = <<>>)
            /\ inv[i].picked = <<0>> =>
                   /\ Done(i)
                   /\ inv[i].confirms = <<>> /\ inv[i].execs = <<>>
                   /\ inv[i].errors = <<>> /\ inv[i].warns = <<>>
                   /\ inv[i].console = 0
            /\ \A k \in 1..Len(remotes) :
                   inv[i].picked = <<k>> =>
                       /\ Len(inv[i].confirms) = 1
                       /\ inv[i].answers = <<TRUE>> =>
                              inv[i].execs = << <<"push", "-u", remotes[k], "master">> >>
                       /\ inv[i].answers # <<TRUE>> => inv[i].execs = <<>>

C13_Witness ==
    \E i, j \in Invocations :
        /\ i # j
        /\ PastPublishGuard(i) /\ inv[i].remoteReply = << <<"origin", "upstream">> >>
        /\ inv[i].picked = <<2>> /\ inv[i].answers = <<TRUE>>
        /\ inv[i].execs = << <<"push", "-u", "upstream", "master">> >>
        /\ PastPublishGuard(j) /\ inv[j].remoteReply = << <<"origin", "upstream">> >>
        /\ inv[j].picked = <<0>> /\ Done(j)

(***************************************************************************)
(* C14.  In every reachable state, whatever the tracker's status (none, or *)
(* any combination of undefined, empty and non-empty branch and upstream   *)
(* branch): canSync() is true iff _syncing is false and the status has a   *)
(* non-empty branch and a non-empty upstreamBranch; canPublish() is true   *)
(* iff _syncing is false and the status has a non-empty branch and no      *)
(* non-empty upstreamBranch; the two are never true together.  Both are    *)
(* functions of the state and assign nothing.                              *)
(***************************************************************************)
C14_CanSyncCanPublish ==
    LET status == selectedRepositoryStatus
        hasBranch   == status \in Statuses /\ status # NoStatus
                           /\ status.branch \notin {Undefined, ""}
        hasUpstream == status \in Statuses /\ status # NoStatus
                           /\ status.upstreamBranch \notin {Undefined, ""}
    IN  /\ canSync    <=> (~syncing /\ hasBranch /\ hasUpstream)
        /\ canPublish <=> (~syncing /\ hasBranch /\ ~hasUpstream)
        /\ ~(canSync /\ canPublish)

C14_Witness ==
    /\ ~syncing
    /\ selectedRepositoryStatus.defined
    /\ selectedRepositoryStatus.branch = "master"
    /\ selectedRepositoryStatus.upstreamBranch = ""
    /\ canPublish /\ ~canSync
    /\ \E i \in Invocations : inv[i].kind = "publish" /\ PastPublishGuard(i)

(***************************************************************************)
(* C15.  No step of a publish invocation - the guard, the reply of         *)
(* git.remote, the quick-open, the dialog, the push settling - assigns     *)
(* _syncing or fires onDidChange.                                          *)
(***************************************************************************)
C15_PublishLeavesBusyStateAlone ==
    [][ \A i \in Invocations :
            (inv'[i].kind = "publish" /\ inv'[i] # inv[i]) =>
                (syncing' = syncing /\ fires' = fires) ]_vars

C15_Witness ==
    \E i, j \in Invocations :
        /\ inv[i].kind = "publish" /\ Done(i)
        /\ Len(inv[i].execs) = 1 /\ Len(inv[i].failed) = 1
        /\ fires[i] = <<>>
        /\ inv[j].kind = "publish" /\ Done(j) /\ inv[j].result = "declined"
        /\ fires[j] = <<>>
        /\ ~syncing

(***************************************************************************)
(* C16.  Within one sync the calls to the git client are strictly          *)
(* sequential: its push command is not in flight while the git.status      *)
(* query of shouldPush is still outstanding.                               *)
(* Violated: line 67 tests the promise shouldPush returns without awaiting *)
(* it, so push is dispatched in the same run that started git.status.      *)
(***************************************************************************)
C16_PushAfterStatusQuery ==
    \A i \in Invocations :
        ~(inv[i].kind = "sync" /\ inv[i].pc = "push"
                               /\ inv[i].statusQuery = "pending")

(***************************************************************************)
(* C17.  Every argument list handed to git.exec, by sync or by publish, is *)
(* <<"pull">>, <<"pull", "-r">>, <<"push">> or <<"push", "-u", remote,     *)
(* branch>> with remote and branch non-empty strings.                      *)
(***************************************************************************)
C17_ArgvForms ==
    \A i \in Invocations :
        \A k \in 1..Len(inv[i].execs) :
            LET args == inv[i].execs[k] IN
            \/ args = <<"pull">>
            \/ args = <<"pull", "-r">>
            \/ args = <<"push">>
            \/ /\ Len(args) = 4
               /\ args[1] = "push" /\ args[2] = "-u"
               /\ args[3] \notin {Undefined, ""}
               /\ args[4] \notin {Undefined, ""}

C17_Witness ==
    \E i, j \in Invocations :
        /\ inv[i].kind = "sync" /\ Done(i)
        /\ inv[i].execs = << <<"pull", "-r">>, <<"push">> >>
        /\ inv[j].kind = "publish" /\ Done(j)
        /\ inv[j].execs = << <<"push", "-u", "upstream", "master">> >>

(***************************************************************************)
(* C18.  A publish whose git.remote call rejected with an error that       *)
(* carries a message has reported it with one messageService.error, and    *)
(* ended with no quick-open, no dialog and no push.                        *)
(* Violated: getRemote awaits git.remote outside any try/catch (line 108), *)
(* the rejection leaves publish() and nothing is reported.                 *)
(***************************************************************************)
C18_RemoteFailureNotified ==
    \A i \in Invocations :
        (inv[i].kind = "publish" /\ inv[i].remoteFailed # <<>>
             /\ inv[i].remoteFailed[1].hasMessage
             /\ Truthy(inv[i].remoteFailed[1].message)) =>
            /\ Done(i)
            /\ inv[i].picks = <<>> /\ inv[i].confirms = <<>>
            /\ inv[i].execs = <<>>
            /\ fires[i] = <<>>
            /\ inv[i].errors = <<inv[i].remoteFailed[1].message>>

(***************************************************************************)
(* C19.  Whenever the pull or push command of a sync is in flight,         *)
(* _syncing is true.                                                       *)
(* Violated: of two syncs that both passed the entry guard (C1), the one   *)
(* that finishes first runs setSyncing(false) while the other's command is *)
(* still in flight.                                                        *)
(***************************************************************************)
C19_BusyWhileCommandInFlight ==
    \A i \in Invocations : Running(i) => syncing

(***************************************************************************)
(* C20.  The push command of a publish is never dispatched while _syncing  *)
(* is true, nor while the pull or push command of a sync is in flight.     *)
(* Violated: canPublish() is tested only at entry (line 95); a sync that   *)
(* reaches setSyncing(true) while the publish waits at its quick-open or   *)
(* dialog does not stop the publish from pushing.                          *)
(***************************************************************************)
C20_PublishPushNotWhileBusy ==
    [][ \A i \in Invocations :
            (inv[i].kind = "publish" /\ inv[i].pc # "push"
                                     /\ inv'[i].pc = "push") =>
                /\ ~syncing
                /\ \A j \in Invocations : ~Running(j) ]_vars

=============================================================================
